---- MODULE Spec2Model ----
(***************************************************************************)
(* MLN inference by MaxWalkSat (srli/inference/mln.py): compilation of raw *)
(* ground rules, randomized local search over several attempts, and        *)
(* projection of the winning assignment onto per-relation rows.            *)
(*                                                                         *)
(* Conventions.  Atom indices are the flat 0-based indices of the source.  *)
(* Positions in lists (relations, rules, rows) are 1-based, as TLA+        *)
(* sequences are; a 0-based ruleIndex r of the source is weights[r + 1].   *)
(* Probabilities and stored truth values are in hundredths (0.05 is 5),    *)
(* weights and losses are whole numbers of the weight unit (1.0 is 1).     *)
(* Python's None is the value None; a dict is a function on its key set.   *)
(***************************************************************************)
EXTENDS Integers, Sequences, FiniteSets, TLC

None == -1

DEFAULT_NOISE == 5
FLIP_MULTIPLIER == 10
HARD_WEIGHT == 1000

\* Bounds of the model.
MaxFlips == 2
MaxTries == 2
MaxRules == 2

VARIABLES
    relations,          \* self._relations
    weights,            \* self._weights
    raw_ground_rules,   \* srli.grounding.ground(...)
    max_flips, max_tries, noise,
    pc,                 \* where solve is
    err,                \* the exception that ended solve, or "none"
    raw_pos,            \* position of the next raw ground rule to compile
    ground_rules, atom_grounding_map, negative_priors,
    attempt, flip, atom_values, total_loss,
    best_atom_values, best_total_loss, best_attempt,
    last_flip,          \* what the last flip iteration selected (history)
    history,            \* final loss and assignment of each attempt run (history)
    results

vars == <<relations, weights, raw_ground_rules, max_flips, max_tries, noise,
          pc, err, raw_pos, ground_rules, atom_grounding_map, negative_priors,
          attempt, flip, atom_values, total_loss,
          best_atom_values, best_total_loss, best_attempt,
          last_flip, history, results>>

inputs == <<relations, weights, raw_ground_rules, max_tries, noise>>
compiled == <<ground_rules, atom_grounding_map, negative_priors>>
best == <<best_atom_values, best_total_loss, best_attempt>>

\* The values rng.random() is sampled at: one below every probability in use,
\* one in the middle of [0, 1).
RandomValues == {0, 50}

EmptyDict == [k \in {} |-> None]

RECURSIVE SumSeq(_)
SumSeq(s) == IF s = <<>> THEN 0 ELSE Head(s) + SumSeq(Tail(s))

------------------------------------------------------------------------------
(* Relations (external collaborator, consumed through its accessors).      *)

get_observed_data(relation) == relation.observed
get_unobserved_data(relation) == relation.unobserved
has_unobserved_data(relation) == Len(relation.unobserved) > 0
arity(relation) == relation.arity
get_negative_prior_weight(relation) == relation.negative_prior

DiscretizeAtOne(stored) == IF stored >= 100 THEN 1 ELSE 0

\* int(float(atom_data[-1]) > 0.0)
Discretize(stored) == IF stored > 0 THEN 1 ELSE 0

\* relation_counts of _process_ground_rules
RelationCounts(rels) ==
    [r \in 1..Len(rels) |->
        Len(get_observed_data(rels[r])) + Len(get_unobserved_data(rels[r]))]

\* The loop of _fetch_atom: the relation an index falls in and the index within
\* it.  A loop that never breaks ends at the last relation with every count
\* subtracted.
RECURSIVE FetchRelation(_, _, _)
FetchRelation(relation_counts, relation_index, index) ==
    IF index < relation_counts[relation_index]
    THEN [relation_index |-> relation_index, index |-> index]
    ELSE IF relation_index = Len(relation_counts)
         THEN [relation_index |-> relation_index,
               index |-> index - relation_counts[relation_index]]
         ELSE FetchRelation(relation_counts, relation_index + 1,
                            index - relation_counts[relation_index])

\* Where _fetch_atom finds the atom: relation, observed or not, row (1-based).
FetchLocate(rels, index) ==
    LET at == FetchRelation(RelationCounts(rels), 1, index)
        relation == rels[at.relation_index]
        n_observed == Len(get_observed_data(relation))
    IN  IF at.index < n_observed
        THEN [relation_index |-> at.relation_index, observed |-> TRUE,
              row |-> at.index + 1]
        ELSE [relation_index |-> at.relation_index, observed |-> FALSE,
              row |-> at.index - n_observed + 1]

\* _fetch_atom: (observed, value, negative_prior)
fetch_atom(rels, index) ==
    LET at == FetchLocate(rels, index)
        relation == rels[at.relation_index]
        atom_data == IF at.observed
                     THEN get_observed_data(relation)[at.row]
                     ELSE get_unobserved_data(relation)[at.row]
        has_value == Len(atom_data) = arity(relation) + 1
    IN  IF at.observed
        THEN [observed |-> TRUE,
              value |-> IF has_value THEN Discretize(atom_data[Len(atom_data)]) ELSE 1,
              negative_prior |-> None]
        ELSE [observed |-> FALSE,
              value |-> IF has_value THEN Discretize(atom_data[Len(atom_data)]) ELSE None,
              negative_prior |-> get_negative_prior_weight(relation)]

------------------------------------------------------------------------------
(* GroundRule                                                               *)

LaxOperators == {"|", "=", ">"}

\* assert operator in ['|', '=']
SupportedOperators == {"|", "="}

GroundRule(weight, atoms, coefficients, constant, operator) ==
    [weight |-> weight, atoms |-> atoms, coefficients |-> coefficients,
     constant |-> constant, operator |-> operator]

loss_logical_swapped(rule, values) ==
    IF \E i \in 1..Len(rule.atoms) :
          \/ rule.coefficients[i] = 1 /\ values[rule.atoms[i]] = 1
          \/ rule.coefficients[i] = -1 /\ values[rule.atoms[i]] = 0
    THEN 0 ELSE 1

\* If any atom matches the coefficient, then no loss is incurred.
loss_logical(rule, values) ==
    IF \E i \in 1..Len(rule.atoms) :
          \/ rule.coefficients[i] = -1 /\ values[rule.atoms[i]] = 1
          \/ rule.coefficients[i] = 1 /\ values[rule.atoms[i]] = 0
    THEN 0 ELSE 1

loss_arithmetic_at_most(rule, values) ==
    LET sum == SumSeq([i \in 1..Len(rule.atoms) |->
                          rule.coefficients[i] * values[rule.atoms[i]]])
    IN  IF sum <= rule.constant THEN 0 ELSE 1

loss_arithmetic(rule, values) ==
    LET sum == SumSeq([i \in 1..Len(rule.atoms) |->
                          rule.coefficients[i] * values[rule.atoms[i]]])
    IN  IF sum = rule.constant THEN 0 ELSE 1

loss(rule, values) ==
    rule.weight * (IF rule.operator = "|" THEN loss_logical(rule, values)
                   ELSE loss_arithmetic(rule, values))

\* total_loss as summed over ground_rules
TotalLoss(rules, values) ==
    SumSeq([i \in 1..Len(rules) |-> loss(rules[i], values)])

------------------------------------------------------------------------------
(* _process_ground_rules                                                    *)

DictPut(dict, key, value) ==
    [k \in DOMAIN dict \cup {key} |-> IF k = key THEN value ELSE dict[k]]

\* weight = self._weights[raw_ground_rule.ruleIndex], HARD_WEIGHT when None
ResolveWeight(rule_weights, raw) ==
    IF rule_weights[raw.ruleIndex + 1] = None
    THEN HARD_WEIGHT
    ELSE rule_weights[raw.ruleIndex + 1]

IsTrivialSwapped(coefficient, value) ==
    \/ coefficient = 1 /\ value = 1
    \/ coefficient = -1 /\ value = 0

\* "Skip trivials": the test made on an observed atom of a disjunction
IsTrivial(coefficient, value) ==
    \/ coefficient = 1 /\ value = 0
    \/ coefficient = -1 /\ value = 1

FoldAdding(constant, coefficient, value) == constant + coefficient * value

\* constant -= (coefficient * value)
Fold(constant, coefficient, value) == constant - coefficient * value

\* The loop over the atoms of one raw ground rule, from atom i on: observed
\* atoms are folded into the constant, unobserved ones are kept, and the
\* loop breaks at the first observed atom that makes a disjunction trivial.
RECURSIVE CollapseAtoms(_, _, _, _)
CollapseAtoms(rels, raw, i, acc) ==
    IF i > Len(raw.atoms) THEN acc
    ELSE LET fetched == fetch_atom(rels, raw.atoms[i])
             coefficient == raw.coefficients[i]
         IN  IF fetched.observed
             THEN IF raw.operator = "|" /\ IsTrivial(coefficient, fetched.value)
                  THEN [acc EXCEPT !.skip = TRUE]
                  ELSE CollapseAtoms(rels, raw, i + 1,
                          [acc EXCEPT !.constant =
                                          Fold(@, coefficient, fetched.value)])
             ELSE CollapseAtoms(rels, raw, i + 1,
                     [acc EXCEPT
                        !.atoms = Append(@, raw.atoms[i]),
                        !.coefficients = Append(@, coefficient),
                        !.negative_priors =
                            DictPut(@, raw.atoms[i], fetched.negative_prior)])

Collapse(rels, raw, priors) ==
    CollapseAtoms(rels, raw, 1,
        [skip |-> FALSE, atoms |-> <<>>, coefficients |-> <<>>,
         constant |-> raw.constant, negative_priors |-> priors])

\* atom_grounding_map[atom_index].append(ground_rule_index), for each atom
RECURSIVE IndexAtoms(_, _, _, _)
IndexAtoms(map, atoms, i, ground_rule_index) ==
    IF i > Len(atoms) THEN map
    ELSE LET atom_index == atoms[i]
             old == IF atom_index \in DOMAIN map THEN map[atom_index] ELSE <<>>
         IN  IndexAtoms(DictPut(map, atom_index, Append(old, ground_rule_index)),
                        atoms, i + 1, ground_rule_index)

\* One iteration of the loop over raw_ground_rules.
ProcessGroundRule ==
    /\ pc = "compile"
    /\ raw_pos <= Len(raw_ground_rules)
    /\ LET raw == raw_ground_rules[raw_pos]
           weight == ResolveWeight(weights, raw)
           c == Collapse(relations, raw, negative_priors)
       IN  /\ negative_priors' = c.negative_priors
           /\ IF c.skip
              THEN /\ raw_pos' = raw_pos + 1
                   /\ UNCHANGED <<ground_rules, atom_grounding_map, pc, err>>
              ELSE IF raw.operator \notin SupportedOperators
              THEN \* the assert of GroundRule.__init__
                   /\ pc' = "error"
                   /\ err' = "AssertionError"
                   /\ UNCHANGED <<ground_rules, atom_grounding_map, raw_pos>>
              ELSE /\ ground_rules' = Append(ground_rules,
                          GroundRule(weight, c.atoms, c.coefficients,
                                     c.constant, raw.operator))
                   /\ atom_grounding_map' =
                          IndexAtoms(atom_grounding_map, c.atoms, 1,
                                     Len(ground_rules) + 1)
                   /\ raw_pos' = raw_pos + 1
                   /\ UNCHANGED <<pc, err>>
    /\ UNCHANGED <<inputs, max_flips, attempt, flip, atom_values, total_loss,
                   best, last_flip, history, results>>

------------------------------------------------------------------------------
(* solve and _inference_attempt                                             *)

\* The end of _process_ground_rules and the set-up of solve's loop: the
\* default flip budget, no best yet, the first attempt.
StartSearch ==
    /\ pc = "compile"
    /\ raw_pos > Len(raw_ground_rules)
    /\ max_flips' = IF max_flips = None
                    THEN FLIP_MULTIPLIER * Cardinality(DOMAIN atom_grounding_map)
                    ELSE max_flips
    /\ best_atom_values' = EmptyDict
    /\ best_total_loss' = None
    /\ best_attempt' = None
    /\ attempt' = 1
    /\ pc' = "attempt"
    /\ UNCHANGED <<inputs, err, raw_pos, compiled, flip, atom_values, total_loss,
                   last_flip, history, results>>

\* int(rng.random() < prior) for an atom with a prior, else rng.randint(0, 1)
InitialValues(prior) ==
    IF prior # None
    THEN {IF r < prior THEN 1 ELSE 0 : r \in RandomValues}
    ELSE 0..1

NoFlip == [rule |-> None, walk |-> FALSE, atom |-> None]

\* The start of an attempt: a random assignment and its loss.
InitAttempt ==
    /\ pc = "attempt"
    /\ \E values \in [DOMAIN atom_grounding_map -> 0..1] :
          /\ \A atom_index \in DOMAIN atom_grounding_map :
                values[atom_index] \in InitialValues(negative_priors[atom_index])
          /\ atom_values' = values
          /\ total_loss' = TotalLoss(ground_rules, values)
    /\ flip' = 0
    /\ last_flip' = NoFlip
    /\ pc' = "flips"
    /\ UNCHANGED <<inputs, max_flips, err, raw_pos, compiled, attempt, best,
                   history, results>>

ToggleStuck(values, atom_index) == values

ToggleIncrementing(values, atom_index) == [values EXCEPT ![atom_index] = 1 + @]

\* atom_values[i] = 1.0 - atom_values[i]
Toggle(values, atom_index) == [values EXCEPT ![atom_index] = 1 - @]

\* The loss summed over the rules the grounding map lists for an atom.
AtomLoss(rules, map, atom_index, values) ==
    SumSeq([k \in 1..Len(map[atom_index]) |->
               loss(rules[map[atom_index][k]], values)])

\* flip_delta = old_atom_loss - new_atom_loss
FlipDelta(rules, map, atom_index, values) ==
    AtomLoss(rules, map, atom_index, values)
        - AtomLoss(rules, map, atom_index, Toggle(values, atom_index))

\* The comparison that lets a later atom replace the chosen one.
Better(flip_delta, flip_atom_loss) == flip_delta > flip_atom_loss

\* The loop over the selected rule's atoms, from atom i on, carrying
\* (flip_atom_index, flip_atom_loss).
RECURSIVE GreedyScan(_, _, _, _, _, _, _)
GreedyScan(rules, map, values, atoms, i, flip_atom_index, flip_atom_loss) ==
    IF i > Len(atoms) THEN flip_atom_index
    ELSE LET flip_delta == FlipDelta(rules, map, atoms[i], values)
         IN  IF flip_atom_index = None \/ Better(flip_delta, flip_atom_loss)
             THEN GreedyScan(rules, map, values, atoms, i + 1, atoms[i], flip_delta)
             ELSE GreedyScan(rules, map, values, atoms, i + 1,
                             flip_atom_index, flip_atom_loss)

GreedyAtom(rules, map, values, atoms) ==
    GreedyScan(rules, map, values, atoms, 1, None, None)

\* The rules the sampling loop can end on.
Unsatisfied(rules, values) ==
    {i \in 1..Len(rules) : loss(rules[i], values) # 0}

StaleLoss(rules, values) == total_loss

\* The total loss after a flip.
Recompute(rules, values) == TotalLoss(rules, values)

\* One iteration of the flip loop that does not break.
Flip ==
    /\ pc = "flips"
    /\ flip < max_flips
    /\ total_loss # 0
    /\ \E ground_rule_index \in Unsatisfied(ground_rules, atom_values),
          r \in RandomValues :
          LET atoms == ground_rules[ground_rule_index].atoms
              walk == r < noise
          IN  IF atoms = <<>>
              THEN \* rng.choice of an empty list, or atom_values[None]
                   /\ pc' = "error"
                   /\ err' = IF walk THEN "IndexError" ELSE "KeyError(None)"
                   /\ UNCHANGED <<atom_values, total_loss, flip, last_flip>>
              ELSE \E flip_atom_index \in
                        IF walk THEN {atoms[k] : k \in 1..Len(atoms)}
                        ELSE {GreedyAtom(ground_rules, atom_grounding_map,
                                         atom_values, atoms)} :
                      /\ atom_values' = Toggle(atom_values, flip_atom_index)
                      /\ total_loss' = Recompute(ground_rules, atom_values')
                      /\ flip' = flip + 1
                      /\ last_flip' = [rule |-> ground_rule_index, walk |-> walk,
                                       atom |-> flip_atom_index]
                      /\ UNCHANGED <<pc, err>>
    /\ UNCHANGED <<inputs, max_flips, raw_pos, compiled, attempt, best,
                   history, results>>

ImprovesOrTies(new_loss, old_best) == old_best = None \/ new_loss <= old_best

\* if (best_total_loss is None or total_loss < best_total_loss)
Improves(new_loss, old_best) == old_best = None \/ new_loss < old_best

\* if (total_loss == 0.0): break, or the end of range(1, max_tries + 1)
LastAttempt(final_loss, this_attempt, tries) ==
    final_loss = 0 \/ this_attempt >= tries

\* The end of an attempt (the flip loop breaks on loss 0 or runs out) and
\* solve's bookkeeping for it.  The closing print of the attempt reads the
\* loop variable flip, which no iteration has bound when max_flips < 1.
EndAttempt ==
    /\ pc = "flips"
    /\ total_loss = 0 \/ flip >= max_flips
    /\ IF max_flips < 1
       THEN /\ pc' = "error"
            /\ err' = "UnboundLocalError"
            /\ UNCHANGED <<best, attempt, history>>
       ELSE /\ history' = Append(history,
                              [loss |-> total_loss, values |-> atom_values])
            /\ IF Improves(total_loss, best_total_loss)
               THEN /\ best_total_loss' = total_loss
                    /\ best_atom_values' = atom_values
                    /\ best_attempt' = attempt
               ELSE UNCHANGED best
            /\ IF LastAttempt(total_loss, attempt, max_tries)
               THEN pc' = "results" /\ UNCHANGED attempt
               ELSE pc' = "attempt" /\ attempt' = attempt + 1
            /\ UNCHANGED err
    /\ UNCHANGED <<inputs, max_flips, raw_pos, compiled, flip, atom_values,
                   total_loss, last_flip, results>>

------------------------------------------------------------------------------
(* _create_results                                                          *)

RECURSIVE CursorSkippingObserved(_, _)
CursorSkippingObserved(rels, r) ==
    IF r = 1 THEN 0
    ELSE CursorSkippingObserved(rels, r - 1)
            + (IF has_unobserved_data(rels[r - 1])
               THEN Len(get_unobserved_data(rels[r - 1])) ELSE 0)

\* next_index when the loop reaches row i (1-based) of the r-th relation's
\* unobserved data: the rows of the relations before it, its own observed
\* rows, and the i - 1 rows before this one.
RECURSIVE CursorBefore(_, _)
CursorBefore(rels, r) ==
    IF r = 1 THEN 0
    ELSE CursorBefore(rels, r - 1)
            + Len(get_observed_data(rels[r - 1]))
            + (IF has_unobserved_data(rels[r - 1])
               THEN Len(get_unobserved_data(rels[r - 1])) ELSE 0)

ResultIndex(rels, r, i) ==
    CursorBefore(rels, r) + Len(get_observed_data(rels[r])) + (i - 1)

\* data[i][0:relation.arity()]
ArgumentColumns(row, n) ==
    SubSeq(row, 1, IF n < Len(row) THEN n ELSE Len(row))

\* The relations that get an entry in the result.
ResultRelations(rels) ==
    {r \in 1..Len(rels) : has_unobserved_data(rels[r])}

\* The atom_values keys _create_results reads.
ResultKeys(rels) ==
    UNION {{ResultIndex(rels, r, i) : i \in 1..Len(get_unobserved_data(rels[r]))} :
              r \in ResultRelations(rels)}

create_results(rels, values) ==
    [r \in ResultRelations(rels) |->
        [i \in 1..Len(get_unobserved_data(rels[r])) |->
            Append(ArgumentColumns(get_unobserved_data(rels[r])[i], arity(rels[r])),
                   values[ResultIndex(rels, r, i)])]]

\* return self._create_results(best_atom_values); reading an atom that has
\* no value raises KeyError.
ReturnResults ==
    /\ pc = "results"
    /\ IF ResultKeys(relations) \subseteq DOMAIN best_atom_values
       THEN /\ results' = create_results(relations, best_atom_values)
            /\ pc' = "done"
            /\ UNCHANGED err
       ELSE /\ pc' = "error"
            /\ err' = "KeyError(atom)"
            /\ UNCHANGED results
    /\ UNCHANGED <<inputs, max_flips, raw_pos, compiled, attempt, flip,
                   atom_values, total_loss, best, last_flip, history>>

------------------------------------------------------------------------------
(* The solver's specification: solve on a small data set.                   *)

\* Three relations; flat atom indices 0 (observed, no stored value), 1
\* (observed, stored 0), 2 and 3 (unobserved, the second with a stored truth
\* column), 4 (unobserved).
SolveRelations(prior) ==
    << [arity |-> 2, observed |-> << <<11, 12>> >>, unobserved |-> << >>,
        negative_prior |-> None],
       [arity |-> 1, observed |-> << <<11, 0>> >>,
        unobserved |-> << <<12>>, <<13, 100>> >>, negative_prior |-> prior],
       [arity |-> 1, observed |-> << >>, unobserved |-> << <<11>> >>,
        negative_prior |-> None] >>

RawRule(ruleIndex, operator, atoms, coefficients, constant) ==
    [ruleIndex |-> ruleIndex, operator |-> operator, atoms |-> atoms,
     coefficients |-> coefficients, constant |-> constant]

SolveRawRules ==
    << RawRule(0, "|", <<2, 3>>, <<-1, -1>>, 0),
       RawRule(1, "|", <<2>>, <<1>>, 0),
       RawRule(2, "|", <<2, 4>>, <<-1, 1>>, 0),
       RawRule(0, "=", <<3, 4>>, <<1, -1>>, 0),
       RawRule(1, "|", <<1, 3>>, <<1, -1>>, 0),
       RawRule(1, "|", <<0>>, <<1>>, 0),
       RawRule(0, "|", <<4, 2, 2>>, <<-1, -1, -1>>, 0),
       RawRule(0, ">", <<2>>, <<1>>, 0) >>

\* The elements of a list at the positions in S, from position i on, in order.
RECURSIVE Pick(_, _, _)
Pick(list, S, i) ==
    IF i > Len(list) THEN <<>>
    ELSE IF i \in S THEN <<list[i]>> \o Pick(list, S, i + 1)
    ELSE Pick(list, S, i + 1)

\* The lists of at most n of the rules of a list, in the order of the list.
SubListsUpTo(list, n) ==
    {Pick(list, S, 1) : S \in {T \in SUBSET (1..Len(list)) : Cardinality(T) <= n}}

SeqsUpTo(S, n) == UNION {[1..k -> S] : k \in 0..n}

SolveWeights == <<1, 2, None>>

Noises == {0, DEFAULT_NOISE, 100}

Init ==
    /\ relations \in {SolveRelations(prior) : prior \in {None, 100}}
    /\ weights = SolveWeights
    /\ raw_ground_rules \in SubListsUpTo(SolveRawRules, MaxRules)
    /\ \/ max_flips \in 0..MaxFlips /\ max_tries \in 1..MaxTries
       \/ max_flips = None /\ max_tries = 1
    /\ noise \in Noises
    /\ pc = "compile"
    /\ err = "none"
    /\ raw_pos = 1
    /\ ground_rules = <<>>
    /\ atom_grounding_map = EmptyDict
    /\ negative_priors = EmptyDict
    /\ attempt = 0
    /\ flip = 0
    /\ atom_values = EmptyDict
    /\ total_loss = None
    /\ best_atom_values = EmptyDict
    /\ best_total_loss = None
    /\ best_attempt = None
    /\ last_flip = NoFlip
    /\ history = <<>>
    /\ results = EmptyDict

Next ==
    \/ ProcessGroundRule
    \/ StartSearch
    \/ InitAttempt
    \/ Flip
    \/ EndAttempt
    \/ ReturnResults

Spec == Init /\ [][Next]_vars

------------------------------------------------------------------------------
(* Single rules: every raw ground rule of up to MaxAtoms atoms over a data  *)
(* set with observed atoms of each kind, compiled and searched alone.       *)

MaxAtoms == 2

\* Flat atom indices 0 (observed, no stored value), 1 (stored 0), 2 (stored
\* 1.0), 3 (stored 0.5), 4 to 6 (unobserved).
RuleRelations ==
    << [arity |-> 2, observed |-> << <<21, 22>>, <<22, 21, 0>> >>,
        unobserved |-> << >>, negative_prior |-> None],
       [arity |-> 1, observed |-> << <<21, 100>>, <<22, 50>> >>,
        unobserved |-> << <<23>>, <<24>>, <<25>> >>,
        negative_prior |-> DEFAULT_NOISE] >>

RuleAtoms == 0..6

SingleRawRules ==
    UNION {{RawRule(ruleIndex, operator, atoms, coefficients, constant) :
               ruleIndex \in {0, 2}, operator \in {"|", "="},
               atoms \in [1..n -> RuleAtoms],
               coefficients \in [1..n -> {1, -1}],
               constant \in {0, 1}} :
           n \in 1..MaxAtoms}

InitRule ==
    /\ relations = RuleRelations
    /\ weights = SolveWeights
    /\ raw_ground_rules \in {<<raw>> : raw \in SingleRawRules}
    /\ max_flips = 1
    /\ max_tries = 1
    /\ noise = DEFAULT_NOISE
    /\ pc = "compile"
    /\ err = "none"
    /\ raw_pos = 1
    /\ ground_rules = <<>>
    /\ atom_grounding_map = EmptyDict
    /\ negative_priors = EmptyDict
    /\ attempt = 0
    /\ flip = 0
    /\ atom_values = EmptyDict
    /\ total_loss = None
    /\ best_atom_values = EmptyDict
    /\ best_total_loss = None
    /\ best_attempt = None
    /\ last_flip = NoFlip
    /\ history = <<>>
    /\ results = EmptyDict

SpecRule == InitRule /\ [][Next]_vars

------------------------------------------------------------------------------
(* Layouts: every list of up to MaxRelations relations with up to MaxRows   *)
(* observed and unobserved rows each, every unobserved atom under one unit  *)
(* rule (as a prior rule such as !Smokes(X) grounds), solved to loss 0.     *)

MaxRelations == 2
MaxRows == 2

LayoutRelation(n_observed, n_unobserved) ==
    [arity |-> 1,
     observed |-> [j \in 1..n_observed |-> <<30 + j, 100>>],
     unobserved |-> [j \in 1..n_unobserved |-> <<40 + j>>],
     negative_prior |-> 0]

LayoutRelations ==
    SeqsUpTo({LayoutRelation(o, u) : o \in 0..MaxRows, u \in 0..MaxRows},
             MaxRelations) \ {<<>>}

\* The value the unit rule of unobserved row i of the r-th relation asks for.
Wanted(r, i) == (r + i) % 2

\* The grounding collaborator's atom index of a row: the relations in
\* declaration order, each one's observed rows and then its unobserved rows.
RECURSIVE GroundedBefore(_, _)
GroundedBefore(rels, r) ==
    IF r = 1 THEN 0
    ELSE GroundedBefore(rels, r - 1) + Len(rels[r - 1].observed)
            + Len(rels[r - 1].unobserved)

GroundedIndex(rels, r, i) ==
    GroundedBefore(rels, r) + Len(rels[r].observed) + (i - 1)

\* One unit disjunction per unobserved row, in atom order.
RECURSIVE UnitRules(_, _, _)
UnitRules(rels, r, i) ==
    IF r > Len(rels) THEN <<>>
    ELSE IF i > Len(rels[r].unobserved) THEN UnitRules(rels, r + 1, 1)
    ELSE <<RawRule(0, "|", <<GroundedIndex(rels, r, i)>>,
                   <<IF Wanted(r, i) = 1 THEN -1 ELSE 1>>, 0)>>
            \o UnitRules(rels, r, i + 1)

InitLayout ==
    /\ relations \in LayoutRelations
    /\ weights = SolveWeights
    /\ raw_ground_rules = UnitRules(relations, 1, 1)
    /\ max_flips = None
    /\ max_tries = 1
    /\ noise = DEFAULT_NOISE
    /\ pc = "compile"
    /\ err = "none"
    /\ raw_pos = 1
    /\ ground_rules = <<>>
    /\ atom_grounding_map = EmptyDict
    /\ negative_priors = EmptyDict
    /\ attempt = 0
    /\ flip = 0
    /\ atom_values = EmptyDict
    /\ total_loss = None
    /\ best_atom_values = EmptyDict
    /\ best_total_loss = None
    /\ best_attempt = None
    /\ last_flip = NoFlip
    /\ history = <<>>
    /\ results = EmptyDict

SpecLayout == InitLayout /\ [][Next]_vars

------------------------------------------------------------------------------
(* End to end: one disjunction "A or B" of weight 1.0 over two unobserved   *)
(* atoms, a budget of 100 flips, one try.  A positive literal has the       *)
(* coefficient -1, as _loss_logical reads it.                               *)

EndToEndMaxFlips == 100

\* The data sets: A and B as the two rows of one relation, or as rows of two
\* relations behind an observed row; with each kind of prior.
EndToEndRelations ==
    {<< [arity |-> 1, observed |-> << >>, unobserved |-> << <<51>>, <<52>> >>,
         negative_prior |-> prior] >> : prior \in {None, 0, DEFAULT_NOISE, 100}}
    \cup
    {<< [arity |-> 1, observed |-> << <<51, 100>> >>, unobserved |-> << <<52>> >>,
         negative_prior |-> prior],
        [arity |-> 1, observed |-> << >>, unobserved |-> << <<51>> >>,
         negative_prior |-> None] >> : prior \in {None, 0, DEFAULT_NOISE, 100}}

\* The flat indices of A and B: the two unobserved rows, in index order.
EndToEndAtoms(rels) ==
    LET keys == ResultKeys(rels)
        A == CHOOSE a \in keys : \A b \in keys : a <= b
        B == CHOOSE b \in keys : b # A
    IN  <<A, B>>

InitEndToEnd ==
    /\ relations \in EndToEndRelations
    /\ weights = SolveWeights
    /\ raw_ground_rules =
          << RawRule(0, "|", EndToEndAtoms(relations), <<-1, -1>>, 0) >>
    /\ max_flips = EndToEndMaxFlips
    /\ max_tries = 1
    /\ noise \in Noises
    /\ pc = "compile"
    /\ err = "none"
    /\ raw_pos = 1
    /\ ground_rules = <<>>
    /\ atom_grounding_map = EmptyDict
    /\ negative_priors = EmptyDict
    /\ attempt = 0
    /\ flip = 0
    /\ atom_values = EmptyDict
    /\ total_loss = None
    /\ best_atom_values = EmptyDict
    /\ best_total_loss = None
    /\ best_attempt = None
    /\ last_flip = NoFlip
    /\ history = <<>>
    /\ results = EmptyDict

SpecEndToEnd == InitEndToEnd /\ [][Next]_vars

------------------------------------------------------------------------------
(* Properties of solve's loop over the attempts.                            *)

Losses == {history[k].loss : k \in 1..Len(history)}
MinLoss == CHOOSE m \in Losses : \A x \in Losses : m <= x
EarliestMin == CHOOSE k \in 1..Len(history) :
                  /\ history[k].loss = MinLoss
                  /\ \A j \in 1..(k - 1) : history[j].loss # MinLoss

\* C1: after every attempt the best loss kept is the minimum of the final
\* losses of the attempts run so far (so it never increases), the best attempt
\* is the earliest one with that loss (ties keep the earlier attempt), and the
\* assignment kept, and projected at the end, is that attempt's final one.
BestIsEarliestMinimum ==
    history # <<>> =>
        /\ best_total_loss = MinLoss
        /\ best_attempt = EarliestMin
        /\ best_atom_values = history[EarliestMin].values
        /\ \A k \in 1..Len(history) : best_total_loss <= history[k].loss
        /\ pc = "done" =>
              results = create_results(relations, history[EarliestMin].values)

TieKeepsEarlier ==
    /\ pc = "done"
    /\ Len(history) = 2
    /\ history[1].loss = history[2].loss
    /\ history[1].values # history[2].values
    /\ best_attempt = 1

SearchEnded == attempt >= 1 /\ pc \in {"results", "done", "error"}

\* C2: solve stops right after the first attempt whose final loss is 0 (no
\* later attempt starts, and that attempt's assignment is the one returned);
\* when no attempt reaches loss 0, exactly max_tries attempts are run.
StopsAtFirstZeroElseAllTries ==
    /\ \A k \in 1..Len(history) :
          history[k].loss = 0 =>
              /\ k = Len(history)
              /\ pc \in {"results", "done", "error"}
              /\ best_atom_values = history[k].values
    /\ (SearchEnded /\ total_loss # 0
            /\ \A k \in 1..Len(history) : history[k].loss # 0)
          => Len(history) = max_tries

\* C3: once the search has begun it never raises, whatever the flip budget
\* and the compiled rules.
SearchNeverRaises ==
    attempt >= 1 => err \notin {"UnboundLocalError", "IndexError", "KeyError(None)"}

WeightedLossOf(k, values) ==
    ground_rules[k].weight *
        (IF ground_rules[k].operator = "|"
         THEN loss_logical(ground_rules[k], values)
         ELSE loss_arithmetic(ground_rules[k], values))

RECURSIVE ScratchLoss(_, _)
ScratchLoss(k, values) ==
    IF k = 0 THEN 0 ELSE ScratchLoss(k - 1, values) + WeightedLossOf(k, values)

\* C5: after the initialisation of an attempt and after each of its flips
\* the tracked total loss is the sum of the weighted losses of all compiled
\* rules under the current assignment, and so is every loss an attempt
\* returned.
LossAccounting ==
    /\ pc = "flips" => total_loss # None
    /\ total_loss # None
          => total_loss = ScratchLoss(Len(ground_rules), atom_values)
    /\ \A k \in 1..Len(history) :
          history[k].loss = ScratchLoss(Len(ground_rules), history[k].values)

LossTrackedAcrossFlips ==
    /\ pc = "flips"
    /\ flip = 2
    /\ Len(ground_rules) = 2
    /\ total_loss > 0
    /\ ~last_flip.walk

RECURSIVE RowsBefore(_)
RowsBefore(r) ==
    IF r = 1 THEN 0
    ELSE RowsBefore(r - 1) + Len(relations[r - 1].observed)
            + Len(relations[r - 1].unobserved)

FlatIndexOf(r, i) == RowsBefore(r) + Len(relations[r].observed) + (i - 1)

\* C4: the result holds, for every relation with unobserved rows and no
\* other, one row per unobserved row, in order: the row's first arity()
\* columns followed by the value, 0 or 1, of the row's atom in the winning
\* assignment.
ResultHasEveryUnobservedRow ==
    (pc = "done" \/ err = "KeyError(atom)") =>
        /\ DOMAIN results =
              {r \in 1..Len(relations) : Len(relations[r].unobserved) > 0}
        /\ \A r \in DOMAIN results :
              /\ Len(results[r]) = Len(relations[r].unobserved)
              /\ \A i \in 1..Len(results[r]) :
                    /\ results[r][i] =
                          Append(SubSeq(relations[r].unobserved[i], 1,
                                        relations[r].arity),
                                 best_atom_values[FlatIndexOf(r, i)])
                    /\ best_atom_values[FlatIndexOf(r, i)] \in {0, 1}

UnsupportedRules ==
    {i \in 1..Len(raw_ground_rules) :
        raw_ground_rules[i].operator \notin {"|", "="}}

\* C7: a raw ground rule whose operator is neither "|" nor "=" is never kept
\* as a compiled rule, and with such a rule among the raw rules compilation
\* cannot get past it: solve ends in the assertion's error before any attempt
\* is initialised and before any flip.
UnsupportedOperatorIsFatal ==
    /\ \A k \in 1..Len(ground_rules) : ground_rules[k].operator \in {"|", "="}
    /\ UnsupportedRules # {} =>
          /\ pc \in {"compile", "error"}
          /\ pc = "error" => err = "AssertionError"
          /\ \A i \in UnsupportedRules : raw_pos <= i
          /\ attempt = 0
          /\ flip = 0
          /\ atom_values = EmptyDict
          /\ total_loss = None
          /\ history = <<>>

AssertionAfterACompiledRule ==
    /\ pc = "error"
    /\ err = "AssertionError"
    /\ Len(ground_rules) = 1
    /\ raw_pos = 2

------------------------------------------------------------------------------
(* Properties of single rules (SpecRule).                                   *)

TheRule == ground_rules[1]

DisjunctionOverAB ==
    /\ pc = "flips"
    /\ Len(ground_rules) = 1
    /\ TheRule.operator = "|"
    /\ TheRule.coefficients = <<1, -1>>
    /\ TheRule.atoms[1] # TheRule.atoms[2]

\* C8, as amended: the weighted loss of a disjunction is 0 or its weight w;
\* for coefficients [+1, -1] over two atoms A and B it is w for (A=1, B=0) and
\* 0 for (A=0, B=0), (A=0, B=1) and (A=1, B=1).
DisjunctionLossTable ==
    (pc = "flips" /\ Len(ground_rules) = 1 /\ TheRule.operator = "|") =>
        /\ total_loss \in {0, TheRule.weight}
        /\ DisjunctionOverAB =>
              total_loss =
                  IF atom_values[TheRule.atoms[1]] = 1
                        /\ atom_values[TheRule.atoms[2]] = 0
                  THEN TheRule.weight ELSE 0

DisjunctionViolated ==
    /\ DisjunctionOverAB
    /\ atom_values[TheRule.atoms[1]] = 1
    /\ atom_values[TheRule.atoms[2]] = 0
    /\ total_loss = HARD_WEIGHT

\* C8 as claimed: for coefficients [+1, -1] the loss is w for (A=0, B=1) and
\* 0 for the three other assignments.
DisjunctionLossTableAsClaimed ==
    DisjunctionOverAB =>
        total_loss =
            IF atom_values[TheRule.atoms[1]] = 0
                  /\ atom_values[TheRule.atoms[2]] = 1
            THEN TheRule.weight ELSE 0

\* The discretized value of the observed atom at position i of the raw rule.
RawRule1 == raw_ground_rules[1]

ObservedAt(i) == FetchLocate(relations, RawRule1.atoms[i]).observed

ObservedValueAt(i) ==
    LET at == FetchLocate(relations, RawRule1.atoms[i])
        row == relations[at.relation_index].observed[at.row]
    IN  IF Len(row) = relations[at.relation_index].arity + 1
        THEN (IF row[Len(row)] > 0 THEN 1 ELSE 0)
        ELSE 1

\* C9, as amended: a disjunctive raw rule is discarded exactly when one of its
\* observed atoms has coefficient +1 and discretized value 0, or coefficient
\* -1 and discretized value 1; otherwise it is retained.
PruningOfDisjunctions ==
    (raw_pos = 2 /\ RawRule1.operator = "|") =>
        (ground_rules = <<>> <=>
            \E i \in 1..Len(RawRule1.atoms) :
                /\ ObservedAt(i)
                /\ \/ RawRule1.coefficients[i] = 1 /\ ObservedValueAt(i) = 0
                   \/ RawRule1.coefficients[i] = -1 /\ ObservedValueAt(i) = 1)

PrunedAfterAnUnobservedAtom ==
    /\ raw_pos = 2
    /\ RawRule1.operator = "|"
    /\ ground_rules = <<>>
    /\ ~ObservedAt(1)
    /\ ObservedAt(2)

\* C9 as claimed: discarded exactly when an observed atom has coefficient +1
\* and discretized value 1, or coefficient -1 and discretized value 0.
PruningOfDisjunctionsAsClaimed ==
    (raw_pos = 2 /\ RawRule1.operator = "|") =>
        (ground_rules = <<>> <=>
            \E i \in 1..Len(RawRule1.atoms) :
                /\ ObservedAt(i)
                /\ \/ RawRule1.coefficients[i] = 1 /\ ObservedValueAt(i) = 1
                   \/ RawRule1.coefficients[i] = -1 /\ ObservedValueAt(i) = 0)

------------------------------------------------------------------------------
(* Properties of the atom index layout (SpecLayout).                        *)

TotalRows == SumSeq(RelationCounts(relations))

\* The rows of all relations: relation, observed or not, row.
AllRows ==
    {[relation_index |-> r, observed |-> TRUE, row |-> j] :
        r \in 1..Len(relations), j \in 1..MaxRows + 1}
    \cup {[relation_index |-> r, observed |-> FALSE, row |-> j] :
        r \in 1..Len(relations), j \in 1..MaxRows + 1}

ExistingRows ==
    {x \in AllRows :
        x.row <= IF x.observed THEN Len(relations[x.relation_index].observed)
                 ELSE Len(relations[x.relation_index].unobserved)}

\* C10: the index the projector reads for unobserved row i of relation r is
\* the index the compiler's lookup resolves to relation r, unobserved row i;
\* the lookup is a bijection from the indices onto the rows, in declaration
\* order of the relations with observed rows before unobserved rows; and the
\* value projected into a row is the one its own rule was compiled for.
IndexCoupling ==
    LET located == [index \in 0..(TotalRows - 1) |-> FetchLocate(relations, index)]
    IN  /\ \A r \in 1..Len(relations) :
              \A i \in 1..Len(relations[r].unobserved) :
                 /\ ResultIndex(relations, r, i) \in DOMAIN located
                 /\ located[ResultIndex(relations, r, i)]
                       = [relation_index |-> r, observed |-> FALSE, row |-> i]
        /\ {located[index] : index \in DOMAIN located} = ExistingRows
        /\ \A a \in DOMAIN located :
              \A b \in DOMAIN located :
                 a < b =>
                    \/ located[a].relation_index < located[b].relation_index
                    \/ /\ located[a].relation_index = located[b].relation_index
                       /\ \/ located[a].observed /\ ~located[b].observed
                          \/ /\ located[a].observed = located[b].observed
                             /\ located[a].row < located[b].row
        /\ (pc = "done" /\ best_total_loss = 0) =>
              \A r \in DOMAIN results :
                 \A i \in 1..Len(results[r]) :
                    results[r][i] = <<40 + i, Wanted(r, i)>>

ProjectedBehindObservedRows ==
    /\ pc = "done"
    /\ best_total_loss = 0
    /\ Len(relations) = 2
    /\ Len(relations[1].observed) = 2
    /\ Len(relations[1].unobserved) = 1
    /\ Len(relations[2].observed) = 1
    /\ Len(relations[2].unobserved) = 2
    /\ results[2] = << <<41, 1>>, <<42, 0>> >>

------------------------------------------------------------------------------
(* Properties of the end-to-end run (SpecEndToEnd).                         *)

\* The value columns of all result rows.
ResultValues ==
    UNION {{results[r][i][Len(results[r][i])] : i \in 1..Len(results[r])} :
              r \in DOMAIN results}

AtomA == EndToEndAtoms(relations)[1]
AtomB == EndToEndAtoms(relations)[2]

\* C11: with the single rule "A or B" of weight 1.0, 100 flips and one try,
\* whatever the random draws, solve never raises, an attempt that has flipped
\* has loss 0 (so it ends within the budget), the attempt's final loss and the
\* best loss are 0, and the returned rows give A = 1 or B = 1.
EndToEndSatisfied ==
    /\ pc # "error"
    /\ (pc = "flips" /\ flip > 0) => total_loss = 0
    /\ flip <= 1
    /\ pc \in {"results", "done"} =>
          /\ total_loss = 0
          /\ history = <<[loss |-> 0, values |-> atom_values]>>
          /\ best_total_loss = 0
          /\ atom_values[AtomA] = 1 \/ atom_values[AtomB] = 1
    /\ pc = "done" =>
          /\ 1 \in ResultValues
          /\ best_atom_values[AtomA] = 1 \/ best_atom_values[AtomB] = 1

RepairedByOneGreedyFlip ==
    /\ pc = "done"
    /\ max_flips = 100
    /\ flip = 1
    /\ ~last_flip.walk
    /\ best_atom_values[AtomA] = 1
    /\ best_atom_values[AtomB] = 0

------------------------------------------------------------------------------
(* Equality rules (SpecRule).                                               *)

EqualityRuleAlone ==
    /\ pc = "flips"
    /\ Len(ground_rules) = 1
    /\ TheRule.operator = "="

\* The weighted sum of an assignment of 0/1 values under coefficients +1/-1.
SignedCount(rule, values) ==
    Cardinality({i \in 1..Len(rule.atoms) :
                    rule.coefficients[i] = 1 /\ values[rule.atoms[i]] = 1})
    - Cardinality({i \in 1..Len(rule.atoms) :
                    rule.coefficients[i] = -1 /\ values[rule.atoms[i]] = 1})

EqualityOverXY ==
    /\ EqualityRuleAlone
    /\ TheRule.coefficients = <<1, -1>>
    /\ TheRule.constant = 0
    /\ TheRule.atoms[1] # TheRule.atoms[2]

\* C12: the weighted loss of an equality rule of weight w is 0 exactly when
\* the sum of coefficient * value over its atoms equals the folded constant,
\* and w otherwise; for X = Y (coefficients [+1, -1], constant 0) it is 0 for
\* (X=1, Y=1) and w for (X=1, Y=0).
EqualityLoss ==
    /\ EqualityRuleAlone =>
          total_loss = IF SignedCount(TheRule, atom_values) = TheRule.constant
                       THEN 0 ELSE TheRule.weight
    /\ EqualityOverXY =>
          /\ (atom_values[TheRule.atoms[1]] = 1 /\ atom_values[TheRule.atoms[2]] = 1)
                => total_loss = 0
          /\ (atom_values[TheRule.atoms[1]] = 1 /\ atom_values[TheRule.atoms[2]] = 0)
                => total_loss = TheRule.weight

EqualityViolatedBelowTheConstant ==
    /\ EqualityOverXY
    /\ atom_values[TheRule.atoms[1]] = 0
    /\ atom_values[TheRule.atoms[2]] = 1
    /\ total_loss = TheRule.weight
    /\ TheRule.weight = 1

------------------------------------------------------------------------------
(* Properties of the flip loop (Spec).                                      *)

\* A flip iteration is about to run: the loop neither breaks nor is over.
IterationStarts == pc = "flips" /\ total_loss # 0 /\ flip < max_flips

AtomsOf(rule) == {rule.atoms[k] : k \in 1..Len(rule.atoms)}

\* C13: every flip iteration that starts with a nonzero total loss changes
\* the value of exactly one atom, an atom of the clause it selected, which had
\* nonzero loss when selected; the value of every other atom, and the set of
\* atoms, stay as they were.
FlipChangesExactlyOneAtom ==
    [][IterationStarts =>
          /\ last_flip'.rule \in 1..Len(ground_rules)
          /\ loss(ground_rules[last_flip'.rule], atom_values) # 0
          /\ last_flip'.atom \in AtomsOf(ground_rules[last_flip'.rule])
          /\ DOMAIN atom_values' = DOMAIN atom_values
          /\ \A a \in DOMAIN atom_values :
                (atom_values'[a] # atom_values[a]) <=> (a = last_flip'.atom)]_vars

\* The compiled rules an atom occurs in.
IncidentRules(atom_index) ==
    {k \in 1..Len(ground_rules) : atom_index \in AtomsOf(ground_rules[k])}

RECURSIVE LossOver(_, _)
LossOver(S, values) ==
    IF S = {} THEN 0
    ELSE LET k == CHOOSE x \in S : TRUE
         IN  WeightedLossOf(k, values) + LossOver(S \ {k}, values)

\* The weighted loss of an atom's incident rules before its flip minus after.
NetEffect(atom_index, values) ==
    LossOver(IncidentRules(atom_index), values)
        - LossOver(IncidentRules(atom_index),
                   [values EXCEPT ![atom_index] = 1 - values[atom_index]])

FirstPosition(atoms, atom_index) ==
    CHOOSE k \in 1..Len(atoms) :
        atoms[k] = atom_index /\ \A j \in 1..(k - 1) : atoms[j] # atom_index

\* A greedy iteration that flips an atom.
GreedyStep == IterationStarts /\ pc' = "flips" /\ ~last_flip'.walk

\* C14: the atom a greedy step flips has, among the atoms of the selected
\* clause, the largest net effect, and every atom before it in the clause's
\* atom list has a strictly smaller one (ties go to the first atom).
GreedyTakesFirstLargest ==
    [][GreedyStep =>
          LET atoms == ground_rules[last_flip'.rule].atoms
              chosen == last_flip'.atom
          IN  \A k \in 1..Len(atoms) :
                 /\ NetEffect(atoms[k], atom_values) <= NetEffect(chosen, atom_values)
                 /\ k < FirstPosition(atoms, chosen) =>
                       NetEffect(atoms[k], atom_values)
                           < NetEffect(chosen, atom_values)]_vars

\* C15: the atom a greedy step flips has a strictly positive net effect, and
\* the total loss after a greedy step is strictly lower than before it.
GreedyStrictlyImproves ==
    [][GreedyStep =>
          /\ NetEffect(last_flip'.atom, atom_values) > 0
          /\ total_loss' < total_loss]_vars

\* C16: an attempt makes at most max_flips flips and none once the total
\* loss is 0, it ends exactly when the total loss is 0 or max_flips flips have
\* been made, and whenever an iteration starts some compiled rule has nonzero
\* loss for the sampling loop to find.
AttemptEndsAtZeroOrBudget ==
    [][pc = "flips" =>
          /\ flip <= max_flips
          /\ total_loss = 0 => (atom_values' = atom_values /\ flip' = flip)
          /\ IterationStarts =>
                \E k \in 1..Len(ground_rules) : WeightedLossOf(k, atom_values) # 0
          /\ pc' # "flips" <=> (total_loss = 0 \/ flip = max_flips)]_vars

------------------------------------------------------------------------------
(* Compilation of single rules (SpecRule).                                  *)

UnobservedAtomsOfRawRule1 ==
    {RawRule1.atoms[i] : i \in {j \in 1..Len(RawRule1.atoms) : ~ObservedAt(j)}}

\* The value of the atom at position i of the raw rule: its discretized
\* observed value, or its value in an assignment of the unobserved atoms.
FullValueAt(i, values) ==
    IF ObservedAt(i) THEN ObservedValueAt(i) ELSE values[RawRule1.atoms[i]]

\* The weighted loss of the raw rule over all its atoms.
RawLoss(values) ==
    LET positions == 1..Len(RawRule1.atoms)
        weight == IF weights[RawRule1.ruleIndex + 1] = None
                  THEN HARD_WEIGHT ELSE weights[RawRule1.ruleIndex + 1]
        satisfied ==
            IF RawRule1.operator = "|"
            THEN \E i \in positions :
                    \/ RawRule1.coefficients[i] = -1 /\ FullValueAt(i, values) = 1
                    \/ RawRule1.coefficients[i] = 1 /\ FullValueAt(i, values) = 0
            ELSE Cardinality({i \in positions : RawRule1.coefficients[i] = 1
                                 /\ FullValueAt(i, values) = 1})
                 - Cardinality({i \in positions : RawRule1.coefficients[i] = -1
                                 /\ FullValueAt(i, values) = 1})
                 = RawRule1.constant
    IN  IF satisfied THEN 0 ELSE weight

\* The weighted loss the compiled rule set reports for the raw rule.
CompiledLoss(values) ==
    IF ground_rules = <<>> THEN 0 ELSE WeightedLossOf(1, values)

\* C17: once the raw rule is compiled, under every assignment of its
\* unobserved atoms the loss the compiled rule set reports for it (that of the
\* retained rule, nothing for a pruned one) is the weighted loss of the raw
\* rule over all its atoms with the observed ones at their discretized values.
CompilationPreservesLoss ==
    raw_pos = 2 =>
        \A values \in [UnobservedAtomsOfRawRule1 -> {0, 1}] :
            CompiledLoss(values) = RawLoss(values)

FoldedEqualityKeepsItsLoss ==
    /\ pc = "flips"
    /\ RawRule1.operator = "="
    /\ Len(RawRule1.atoms) = 2
    /\ ObservedAt(1)
    /\ ~ObservedAt(2)
    /\ TheRule.constant # RawRule1.constant
    /\ total_loss = 0
    /\ \E values \in [UnobservedAtomsOfRawRule1 -> {0, 1}] : RawLoss(values) = HARD_WEIGHT

------------------------------------------------------------------------------
(* The grounding index and the assignment (Spec).                           *)

IndexedEntries(atom_index) ==
    {atom_grounding_map[atom_index][k] :
        k \in 1..Len(atom_grounding_map[atom_index])}

\* C18: the grounding index has an entry list for exactly the atoms of the
\* compiled rules; an atom's entries are the positions of the compiled rules
\* whose atom list contains it, each listed once; and in a search the net
\* effect computed for an atom through the index is the change in total loss
\* its flip would cause.
GroundingIndexListsEachRuleOnce ==
    /\ DOMAIN atom_grounding_map =
          UNION {AtomsOf(ground_rules[k]) : k \in 1..Len(ground_rules)}
    /\ \A a \in DOMAIN atom_grounding_map :
          /\ IndexedEntries(a) = IncidentRules(a)
          /\ Len(atom_grounding_map[a]) = Cardinality(IncidentRules(a))
    /\ pc = "flips" =>
          \A a \in DOMAIN atom_values :
             FlipDelta(ground_rules, atom_grounding_map, a, atom_values)
                = ScratchLoss(Len(ground_rules), atom_values)
                    - ScratchLoss(Len(ground_rules),
                          [atom_values EXCEPT ![a] = 1 - atom_values[a]])

\* C19: throughout an attempt the assignment is defined on exactly the atoms
\* of the grounding index with every value 0 or 1: so it is after the
\* initialisation, and a flip replaces the value v of one atom by 1 - v and
\* adds or removes no atom.
AssignmentStaysBoolean ==
    [][pc' = "flips" =>
          /\ DOMAIN atom_values' = DOMAIN atom_grounding_map
          /\ \A a \in DOMAIN atom_values' : atom_values'[a] \in {0, 1}
          /\ pc = "flips" =>
                /\ DOMAIN atom_values' = DOMAIN atom_values
                /\ \A a \in DOMAIN atom_values :
                      \/ atom_values'[a] = atom_values[a]
                      \/ atom_values'[a] = 1 - atom_values[a]]_vars

FlippedTwiceInTheSecondAttempt ==
    /\ pc = "flips"
    /\ attempt = 2
    /\ flip = 2
    /\ Cardinality(DOMAIN atom_values) = 3
    /\ last_flip.walk

------------------------------------------------------------------------------
(* Folding of observed atoms (SpecRule).                                    *)

\* The stored truth value, in hundredths, of the observed atom at position i
\* of the raw rule; 1.0 when the row stores none.
StoredValueAt(i) ==
    LET at == FetchLocate(relations, RawRule1.atoms[i])
        row == relations[at.relation_index].observed[at.row]
    IN  IF Len(row) = relations[at.relation_index].arity + 1
        THEN row[Len(row)] ELSE 100

RetainedRule == raw_pos = 2 /\ Len(ground_rules) = 1

\* C20, as amended: whatever the operator, an observed atom is folded into
\* the constant at its stored truth value discretized by the strict > 0
\* threshold (1 when none is stored): the folded constant of a retained rule,
\* disjunction or equality, is the raw constant minus the sum of
\* coefficient * discretized value over its observed atoms.
FoldingUsesDiscretizedValues ==
    RetainedRule =>
        TheRule.constant =
            RawRule1.constant
              - SumSeq([i \in 1..Len(RawRule1.atoms) |->
                           IF ObservedAt(i)
                           THEN RawRule1.coefficients[i] * ObservedValueAt(i)
                           ELSE 0])

EqualityFoldedOverAFractionalValue ==
    /\ RetainedRule
    /\ RawRule1.operator = "="
    /\ Len(RawRule1.atoms) = 2
    /\ ObservedAt(1)
    /\ StoredValueAt(1) = 50
    /\ ~ObservedAt(2)
    /\ TheRule.constant = RawRule1.constant - RawRule1.coefficients[1]

\* C20 as claimed: the folded constant of an equality rule is the raw
\* constant minus the sum of coefficient * stored value (not discretized)
\* over its observed atoms; both sides in hundredths.
EqualityFoldsStoredValuesDirectly ==
    (RetainedRule /\ RawRule1.operator = "=") =>
        100 * TheRule.constant =
            100 * RawRule1.constant
              - SumSeq([i \in 1..Len(RawRule1.atoms) |->
                           IF ObservedAt(i)
                           THEN RawRule1.coefficients[i] * StoredValueAt(i)
                           ELSE 0])

====
